---------------------------- MODULE Spec2Model ----------------------------
(***************************************************************************)
(* AutoDeploy Agent: the workflow controller of src/src/App.tsx (the App   *)
(* component's state and its three asynchronous handlers) together with    *)
(* the provisioning client of src/src/services/githubService.ts.           *)
(*                                                                         *)
(* One action is one JavaScript task: a click or edit handler up to its    *)
(* first await, or the continuation of a handler from the arrival of one   *)
(* response up to the next await.  User events interleave between tasks.   *)
(* A handler reads the values of the render it was created in, so the      *)
(* state it closed over at the click is kept in cap.                       *)
(*                                                                         *)
(* Left out: config.geminiKey and project.description, which are only      *)
(* handed on to an external service whose outcome is unconstrained here,   *)
(* and file contents, which no handler inspects.                           *)
(***************************************************************************)
EXTENDS Naturals, Sequences, FiniteSets

\* ------------------------------------------------------------------ bounds

\* Handler invocations that reach an external call, per session.
MaxOps == 2
\* The same, in a session whose upstream never fails a call.
MaxReliableOps == 4
\* Files in a generated project.
MaxFiles == 3

\* ------------------------------------------------------------- value sets

None == <<>>
Some(x) == <<x>>

CONFIG == "CONFIG"
PROMPT == "PROMPT"
GENERATING == "GENERATING"
REVIEW == "REVIEW"
DEPLOYING == "DEPLOYING"
SUCCESS == "SUCCESS"
Steps == {CONFIG, PROMPT, GENERATING, REVIEW, DEPLOYING, SUCCESS}

\* Credentials the user can type; the upstream knows one of them.
GithubTokens == {"", "tokA", "bad"}
ValidTokens == {"tokA"}
Login(t) == IF t = "tokA" THEN "alice" ELSE ""
VercelTokens == {"", "vtok"}

DefaultConfig == [githubToken |-> "", vercelToken |-> "", githubUsername |-> ""]

\* Records handleSaveConfig can have written in an earlier session.
SavedConfigs ==
  {[githubToken |-> t, vercelToken |-> v, githubUsername |-> Login(t)] :
     t \in ValidTokens, v \in VercelTokens}

\* Prompt texts, as sequences of characters: the empty text, a whitespace-only
\* one, and one with content after leading whitespace.
Prompts == {<<>>, <<" ">>, <<" ", "a">>}

RECURSIVE TrimStart(_)
TrimStart(s) ==
  IF s = <<>> THEN s
  ELSE IF Head(s) = " " THEN TrimStart(Tail(s)) ELSE s
RECURSIVE TrimEnd(_)
TrimEnd(s) ==
  IF s = <<>> THEN s
  ELSE IF s[Len(s)] = " " THEN TrimEnd(SubSeq(s, 1, Len(s) - 1)) ELSE s
Trim(s) == TrimEnd(TrimStart(s))

\* A generated project: a name and an ordered list of file paths.
Path(k) == <<"file", k>>
ProjectNames == {"p"}
Projects ==
  {[name |-> n, files |-> [k \in 1..m |-> Path(k)]] :
     n \in ProjectNames, m \in 0..MaxFiles}

Shas == {"sha1"}

Entry(message, type) == [message |-> message, type |-> type]

\* ------------------------------------------------------------------ state

VARIABLES
  step,           \* App.tsx:16  workflow stage
  config,         \* App.tsx:17  credentials and resolved account identifier
  prompt,         \* App.tsx:23  prompt text
  logs,           \* App.tsx:24  log entries
  project,        \* App.tsx:25  None or Some(generated project)
  deploymentUrl,  \* App.tsx:26  None or Some(url)
  repoUrl,        \* App.tsx:27  None or Some(url)
  isLoading,      \* App.tsx:28  busy flag
  stored,         \* localStorage 'autodeploy_config': None or Some(record)
  pc,             \* the await at which the running handler is suspended
  cap,            \* what the running handler closed over at its click
  idx,            \* pushFilesToRepo: index of the file being pushed
  sha,            \* pushFilesToRepo: None or Some(sha) of the current file
  remoteRepos,    \* upstream: <<login, name>> of repositories known to exist
  progress,       \* file indexes onProgress was called for, this deploy
  uploaded,       \* file indexes whose PUT succeeded, this deploy
  ev,             \* the task that produced this state and the response it read
  nops,           \* handler invocations that reached an external call
  upstream        \* "any": a call may fail; "reliable": no call fails

vars ==
  <<step, config, prompt, logs, project, deploymentUrl, repoUrl, isLoading,
    stored, pc, cap, idx, sha, remoteRepos, progress, uploaded, ev, nops, upstream>>

Event(op, resp, result, pre) == [op |-> op, resp |-> resp, result |-> result, pre |-> pre]
UserEvent == Event("user", <<>>, <<>>, <<>>)

NoCap == [config |-> DefaultConfig, project |-> None, prompt |-> <<>>, base |-> 0]
Capture == [config |-> config, project |-> project, prompt |-> prompt, base |-> Len(logs)]

\* addLog appends one entry.
addLog(lg, message, type) == Append(lg, Entry(message, type))

GithubUrl(login, name) == <<"https://github.com", login, name>>
VercelUrl(name) == <<"https://", name, "vercel.app">>

\* State after the first render and its mount effect (App.tsx:16-36).
InitWith(u) ==
  /\ \E saved \in {None} \cup {Some(c) : c \in SavedConfigs} :
       /\ stored = saved
       /\ config = IF saved = None THEN DefaultConfig ELSE saved[1]
       /\ step = IF saved = None THEN CONFIG ELSE PROMPT
  /\ prompt = <<>>
  /\ logs = <<>>
  /\ project = None
  /\ deploymentUrl = None
  /\ repoUrl = None
  /\ isLoading = FALSE
  /\ pc = "idle"
  /\ cap = NoCap
  /\ idx = 0
  /\ sha = None
  /\ remoteRepos = {}
  /\ progress = <<>>
  /\ uploaded = <<>>
  /\ ev = Event("init", <<>>, <<>>, <<>>)
  /\ nops = 0
  /\ upstream = u

\* ------------------------------------------------- user edits and navigation

remote == <<remoteRepos, progress, uploaded, upstream>>
handler == <<pc, cap, idx, sha>>

EditGithubToken ==
  /\ step = CONFIG
  /\ \E t \in GithubTokens \ {config.githubToken} :
       config' = [config EXCEPT !.githubToken = t]
  /\ ev' = UserEvent
  /\ UNCHANGED <<step, prompt, logs, project, deploymentUrl, repoUrl, isLoading,
                 stored, handler, remote, nops>>

EditVercelToken ==
  /\ step = CONFIG
  /\ \E v \in VercelTokens \ {config.vercelToken} :
       config' = [config EXCEPT !.vercelToken = v]
  /\ ev' = UserEvent
  /\ UNCHANGED <<step, prompt, logs, project, deploymentUrl, repoUrl, isLoading,
                 stored, handler, remote, nops>>

EditPrompt ==
  /\ step \in {PROMPT, GENERATING}
  /\ \E p \in Prompts \ {prompt} : prompt' = p
  /\ ev' = UserEvent
  /\ UNCHANGED <<step, config, logs, project, deploymentUrl, repoUrl, isLoading,
                 stored, handler, remote, nops>>

ClickSettings ==
  /\ step' = CONFIG
  /\ ev' = UserEvent
  /\ UNCHANGED <<config, prompt, logs, project, deploymentUrl, repoUrl, isLoading,
                 stored, handler, remote, nops>>

ClickReset ==
  /\ step \in {REVIEW, DEPLOYING, SUCCESS}
  /\ project # None
  /\ step' = PROMPT
  /\ ev' = UserEvent
  /\ UNCHANGED <<config, prompt, logs, project, deploymentUrl, repoUrl, isLoading,
                 stored, handler, remote, nops>>

\* ------------------------------------------------------ controller state

\* The component state and the running handler as one record; a handler task
\* is a function from this record (and a response) to the next one.  The
\* upstream's repositories ride along for the event record only: no handler
\* task reads or writes them.
Cur ==
  [step |-> step, config |-> config, logs |-> logs, project |-> project,
   deploymentUrl |-> deploymentUrl, repoUrl |-> repoUrl, isLoading |-> isLoading,
   stored |-> stored, pc |-> pc, cap |-> cap, idx |-> idx, sha |-> sha,
   progress |-> progress, uploaded |-> uploaded, remoteRepos |-> remoteRepos]

Set(d) ==
  /\ step' = d.step
  /\ config' = d.config
  /\ logs' = d.logs
  /\ project' = d.project
  /\ deploymentUrl' = d.deploymentUrl
  /\ repoUrl' = d.repoUrl
  /\ isLoading' = d.isLoading
  /\ stored' = d.stored
  /\ pc' = d.pc
  /\ cap' = d.cap
  /\ idx' = d.idx
  /\ sha' = d.sha
  /\ progress' = d.progress
  /\ uploaded' = d.uploaded

Log(d, message, type) == [d EXCEPT !.logs = addLog(@, message, type)]

OpBudget == IF upstream = "reliable" THEN MaxReliableOps ELSE MaxOps

\* A click runs handler task d; one that reaches an external call uses budget.
Invoke(op, d) ==
  /\ d.pc # "idle" => nops < OpBudget
  /\ Set(d)
  /\ nops' = IF d.pc # "idle" THEN nops + 1 ELSE nops
  /\ ev' = Event(op, <<>>, <<>>, Cur)
  /\ UNCHANGED <<prompt, remoteRepos, upstream>>

\* A response r resumes the suspended handler, which runs to d.
Resume(op, r, result, d) ==
  /\ Set(d)
  /\ ev' = Event(op, r, result, Cur)
  /\ UNCHANGED <<prompt, nops, upstream>>

\* ------------------------------------------------------ verifyGithubToken

\* An upstream call may fail for no reason of the request's unless the
\* upstream is reliable.
Faulty == upstream = "any"
When(c, S) == IF c THEN S ELSE {}

\* GET /user: ok with the login only for a credential the upstream knows;
\* otherwise a failure (non-ok status or network error).
VerifyResponses(t) ==
  When(t \in ValidTokens, {<<"ok", Login(t)>>})
  \cup When(t \notin ValidTokens \/ Faulty, {<<"fail">>})

\* <<"return", login>> or <<"throw", message>>.
verifyGithubToken(r) ==
  IF r[1] = "ok" THEN <<"return", r[2]>> ELSE <<"throw", <<"Invalid GitHub Token">>>>

\* ------------------------------------------------------- handleSaveConfig

handleSaveConfig(d) ==
  [d EXCEPT !.isLoading = TRUE, !.pc = "save", !.cap = Capture]

\* Mutant of SaveTry: the identifier is merged into the configuration of the
\* moment instead of the one the handler closed over.
SaveTryCurrentConfig(d, username) ==
  LET newConfig == [d.config EXCEPT !.githubUsername = username]
  IN [Log(d, <<"Authenticated as GitHub user", username>>, "success")
        EXCEPT !.config = newConfig, !.stored = Some(newConfig), !.step = PROMPT]

SaveTry(d, username) ==
  LET newConfig == [d.cap.config EXCEPT !.githubUsername = username]
  IN [Log(d, <<"Authenticated as GitHub user", username>>, "success")
        EXCEPT !.config = newConfig, !.stored = Some(newConfig), !.step = PROMPT]

SaveCatch(d, message) == Log(d, message, "error")

SaveFinally(d) ==
  [d EXCEPT !.isLoading = FALSE, !.pc = "idle", !.cap = NoCap, !.idx = 0, !.sha = None]

SaveOnVerify(d, v) ==
  SaveFinally(IF v[1] = "return" THEN SaveTry(d, v[2]) ELSE SaveCatch(d, v[2]))

\* Mutant of ClickSave: the button is not disabled while the busy flag is set.
ClickSaveNotDisabled ==
  /\ step = CONFIG
  /\ config.githubToken # ""
  /\ Invoke("handleSaveConfig", handleSaveConfig(Cur))

ClickSave ==
  /\ step = CONFIG
  /\ ~isLoading
  /\ config.githubToken # ""
  /\ Invoke("handleSaveConfig", handleSaveConfig(Cur))

SaveVerifyResponse ==
  /\ pc = "save"
  /\ \E r \in VerifyResponses(cap.config.githubToken) :
       Resume("saveVerify", r, <<>>, SaveOnVerify(Cur, verifyGithubToken(r)))
  /\ UNCHANGED remoteRepos

\* --------------------------------------------------------- handleGenerate

\* generateProjectCode either fails or yields a project.
GenerateResponses == When(Faulty, {<<"fail">>}) \cup {<<"ok", p>> : p \in Projects}

\* Mutant of handleGenerate: the prompt is tested without trim.
handleGenerateNoTrim(d) ==
  IF prompt = <<>> THEN d
  ELSE [Log(d, <<"Generating project for", prompt>>, "info")
          EXCEPT !.step = GENERATING, !.isLoading = TRUE, !.pc = "generate",
                 !.cap = Capture]

handleGenerate(d) ==
  IF Trim(prompt) = <<>> THEN d
  ELSE [Log(d, <<"Generating project for", prompt>>, "info")
          EXCEPT !.step = GENERATING, !.isLoading = TRUE, !.pc = "generate",
                 !.cap = Capture]

\* Mutant of GenerateTry: a project already stored is kept.
GenerateTryKeepsOld(d, generated) ==
  [Log(Log(d, <<"Generated project", generated.name>>, "success"),
       <<"Created files", Len(generated.files)>>, "info")
     EXCEPT !.project = IF d.project = None THEN Some(generated) ELSE d.project,
            !.step = REVIEW]

GenerateTry(d, generated) ==
  [Log(Log(d, <<"Generated project", generated.name>>, "success"),
       <<"Created files", Len(generated.files)>>, "info")
     EXCEPT !.project = Some(generated), !.step = REVIEW]

\* Mutant of GenerateCatch: the stage is left where the failure found it.
GenerateCatchKeepsStage(d, message) == Log(d, message, "error")

\* Mutant of GenerateCatch: the stage goes on to Review.
GenerateCatchToReview(d, message) ==
  [Log(d, message, "error") EXCEPT !.step = REVIEW]

GenerateCatch(d, message) ==
  [Log(d, message, "error") EXCEPT !.step = PROMPT]

GenerateFinally(d) ==
  [d EXCEPT !.isLoading = FALSE, !.pc = "idle", !.cap = NoCap, !.idx = 0, !.sha = None]

GenerateOnResponse(d, r) ==
  GenerateFinally(IF r[1] = "ok" THEN GenerateTry(d, r[2])
                  ELSE GenerateCatch(d, <<"generation failed">>))

ClickGenerate ==
  /\ step \in {PROMPT, GENERATING}
  /\ ~isLoading
  /\ prompt # <<>>
  /\ Invoke("handleGenerate", handleGenerate(Cur))

GenerateResponse ==
  /\ pc = "generate"
  /\ \E r \in GenerateResponses :
       Resume("generateResponse", r, <<>>, GenerateOnResponse(Cur, r))
  /\ UNCHANGED remoteRepos

\* ----------------------------------------------------------- handleDeploy

CapToken(d) == d.cap.config.githubToken
CapName(d) == d.cap.project[1].name
CapFiles(d) == d.cap.project[1].files

\* Mutant of DeployFinally: the handler ends without clearing the busy flag.
DeployFinallyKeepsBusy(d) ==
  [d EXCEPT !.pc = "idle", !.cap = NoCap, !.idx = 0, !.sha = None]

\* finally (App.tsx:109-111)
DeployFinally(d) ==
  [d EXCEPT !.isLoading = FALSE, !.pc = "idle", !.cap = NoCap, !.idx = 0, !.sha = None]

\* Mutant of DeployCatch: the entries of the failed invocation are taken back.
DeployCatchRollsBack(d, message) ==
  DeployFinally([d EXCEPT !.logs = addLog(SubSeq(@, 1, d.cap.base), message, "error"),
                          !.step = REVIEW])

\* catch (App.tsx:106-108)
DeployCatch(d, message) ==
  DeployFinally([Log(d, message, "error") EXCEPT !.step = REVIEW])

\* Mutant of DeployHosting: the hosting registration is attempted whether or
\* not a hosting credential is present.
DeployHostingAlways(d) ==
  [Log(d, <<"Triggering Vercel deployment...">>, "info") EXCEPT !.pc = "vercel"]

\* Step 3 and the end of the try block (App.tsx:94-105), up to the await.
DeployHosting(d) ==
  IF d.cap.config.vercelToken # ""
  THEN [Log(d, <<"Triggering Vercel deployment...">>, "info") EXCEPT !.pc = "vercel"]
  ELSE DeployFinally(
         [Log(d, <<"Skipping Vercel deployment (no token provided).">>, "warning")
            EXCEPT !.step = SUCCESS])

\* Mutant of DeployHosted: a completed deploy returns to the prompt.
DeployHostedToPrompt(d) ==
  DeployFinally(
    [Log(Log(d, <<"Vercel project created/linked.">>, "success"),
         <<"Deployment queued.">>, "warning")
       EXCEPT !.deploymentUrl = Some(VercelUrl(CapName(d))), !.step = PROMPT])

\* After createVercelProject returned (App.tsx:98-105).
DeployHosted(d) ==
  DeployFinally(
    [Log(Log(d, <<"Vercel project created/linked.">>, "success"),
         <<"Deployment queued.">>, "warning")
       EXCEPT !.deploymentUrl = Some(VercelUrl(CapName(d))), !.step = SUCCESS])

\* pushFilesToRepo returned (App.tsx:92).
DeployPushed(d) == DeployHosting(Log(d, <<"All files pushed to GitHub.">>, "success"))

\* pushFilesToRepo: the loop from file k up to its first await
\* (githubService.ts:36-42), or the return after the last file.
PushFrom(d, k) ==
  IF k > Len(CapFiles(d)) THEN DeployPushed(d)
  ELSE [Log(d, <<"Pushing", CapFiles(d)[k]>>, "info")
          EXCEPT !.progress = Append(@, k), !.idx = k, !.sha = None, !.pc = "get"]

\* The existence lookup answered or failed (githubService.ts:43-62): the PUT
\* is issued with the sha the lookup gave, if any.
GetResponses(t) ==
  When(t \in ValidTokens, {<<"ok", s>> : s \in Shas}) \cup {<<"notok">>, <<"neterr">>}

\* Mutant of PushOnGet: a failed lookup fails the operation.
PushOnGetStrict(d, r) ==
  IF r[1] = "ok" THEN [d EXCEPT !.sha = Some(r[2]), !.pc = "put"]
  ELSE DeployCatch(d, <<"Failed to look up", CapFiles(d)[d.idx]>>)

PushOnGet(d, r) ==
  LET found == IF r[1] = "ok" THEN Some(r[2]) ELSE None
  IN [d EXCEPT !.sha = found, !.pc = "put"]

\* The upload answered (githubService.ts:63-64).
PutResponses(t) ==
  When(t \in ValidTokens, {<<"ok">>}) \cup When(t \notin ValidTokens \/ Faulty, {<<"fail">>})

\* Mutant of PushOnPut: a failed upload is retried from the file's lookup.
PushOnPutRetries(d, r) ==
  IF r[1] = "ok"
  THEN PushFrom([d EXCEPT !.uploaded = Append(@, d.idx)], d.idx + 1)
  ELSE PushFrom(d, d.idx)

\* Mutant of PushOnPut: a failed upload is skipped and the loop goes on.
PushOnPutGoesOn(d, r) ==
  IF r[1] = "ok"
  THEN PushFrom([d EXCEPT !.uploaded = Append(@, d.idx)], d.idx + 1)
  ELSE PushFrom(d, d.idx + 1)

PushOnPut(d, r) ==
  IF r[1] = "ok"
  THEN PushFrom([d EXCEPT !.uploaded = Append(@, d.idx)], d.idx + 1)
  ELSE DeployCatch(d, <<"Failed to upload", CapFiles(d)[d.idx]>>)

\* createRepository returned repo (App.tsx:87-91).
DeployRepoReady(d, repo) ==
  PushFrom([Log(d, <<"Repository created", repo.html_url>>, "success")
              EXCEPT !.repoUrl = Some(repo.html_url)], 1)

\* POST /user/repos: created (only while the account has no such repository),
\* a name collision, or any other failure.
CreateResponses(t, name) ==
  When(t \in ValidTokens /\ <<Login(t), name>> \notin remoteRepos, {<<"created", Login(t)>>})
  \cup When(t \in ValidTokens, {<<"exists">>})
  \cup When(t \notin ValidTokens \/ Faulty, {<<"error">>})

\* Mutant of createRepository: a name collision is an error like any other.
createRepositoryNoFallback(name, r) ==
  IF r[1] = "created"
  THEN <<"return", [name |-> name, html_url |-> GithubUrl(r[2], name)]>>
  ELSE <<"throw", <<"GitHub Create Repo Error">>>>

\* createRepository on the POST's response (githubService.ts:24-32):
\* <<"return", repo>>, <<"throw", message>>, or <<"await">> for the nested
\* verifyGithubToken of the collision path.
createRepository(name, r) ==
  IF r[1] = "created"
  THEN <<"return", [name |-> name, html_url |-> GithubUrl(r[2], name)]>>
  ELSE IF r[1] = "exists" THEN <<"await">>
  ELSE <<"throw", <<"GitHub Create Repo Error">>>>

\* Mutant of createRepositoryFallback: the url leaves the account out.
createRepositoryFallbackNoAccount(name, v) ==
  IF v[1] = "return"
  THEN <<"return", [name |-> name, html_url |-> GithubUrl("", name)]>>
  ELSE v

\* createRepository on the nested verification's outcome (githubService.ts:28).
createRepositoryFallback(name, v) ==
  IF v[1] = "return"
  THEN <<"return", [name |-> name, html_url |-> GithubUrl(v[2], name)]>>
  ELSE v

DeployOnCreate(d, res) ==
  IF res[1] = "return" THEN DeployRepoReady(d, res[2])
  ELSE IF res[1] = "await" THEN [d EXCEPT !.pc = "createVerify"]
  ELSE DeployCatch(d, res[2])

\* Mutant of handleDeploy: only the project is required.
handleDeployNoAccountCheck(d) ==
  IF d.project = None THEN d
  ELSE [Log(d, <<"Creating GitHub repository...">>, "info")
          EXCEPT !.step = DEPLOYING, !.isLoading = TRUE, !.pc = "create",
                 !.cap = Capture, !.idx = 0, !.sha = None,
                 !.progress = <<>>, !.uploaded = <<>>]

handleDeploy(d) ==
  IF d.project = None \/ d.config.githubUsername = "" THEN d
  ELSE [Log(d, <<"Creating GitHub repository...">>, "info")
          EXCEPT !.step = DEPLOYING, !.isLoading = TRUE, !.pc = "create",
                 !.cap = Capture, !.idx = 0, !.sha = None,
                 !.progress = <<>>, !.uploaded = <<>>]

ClickDeploy ==
  /\ step = REVIEW
  /\ project # None
  /\ ~isLoading
  /\ Invoke("handleDeploy", handleDeploy(Cur))

CreateRepoResponse ==
  /\ pc = "create"
  /\ \E r \in CreateResponses(CapToken(Cur), CapName(Cur)) :
       LET res == createRepository(CapName(Cur), r)
       IN /\ Resume("createRepo", r, res, DeployOnCreate(Cur, res))
          /\ remoteRepos' =
               IF r[1] \in {"created", "exists"}
               THEN remoteRepos \cup {<<Login(CapToken(Cur)), CapName(Cur)>>}
               ELSE remoteRepos

CreateVerifyResponse ==
  /\ pc = "createVerify"
  /\ \E r \in VerifyResponses(CapToken(Cur)) :
       LET res == createRepositoryFallback(CapName(Cur), verifyGithubToken(r))
       IN Resume("createRepoFallback", r, res, DeployOnCreate(Cur, res))
  /\ UNCHANGED remoteRepos

GetResponse ==
  /\ pc = "get"
  /\ \E r \in GetResponses(CapToken(Cur)) : Resume("get", r, <<>>, PushOnGet(Cur, r))
  /\ UNCHANGED remoteRepos

PutResponse ==
  /\ pc = "put"
  /\ \E r \in PutResponses(CapToken(Cur)) : Resume("put", r, <<>>, PushOnPut(Cur, r))
  /\ UNCHANGED remoteRepos

\* createVercelProject returns a project handle or fails.
VercelResponses == {<<"ok">>} \cup When(Faulty, {<<"fail">>})

DeployOnVercel(d, r) ==
  IF r[1] = "ok" THEN DeployHosted(d)
  ELSE DeployCatch(d, <<"Vercel project creation failed">>)

VercelResponse ==
  /\ pc = "vercel"
  /\ \E r \in VercelResponses : Resume("vercel", r, <<>>, DeployOnVercel(Cur, r))
  /\ UNCHANGED remoteRepos

\* ---------------------------------------------------------- specification

Next ==
  \/ EditGithubToken
  \/ EditVercelToken
  \/ EditPrompt
  \/ ClickSettings
  \/ ClickReset
  \/ ClickSave
  \/ SaveVerifyResponse
  \/ ClickGenerate
  \/ GenerateResponse
  \/ ClickDeploy
  \/ CreateRepoResponse
  \/ CreateVerifyResponse
  \/ GetResponse
  \/ PutResponse
  \/ VercelResponse

\* handleDeploy called as the controller's operation deploy(), up to MaxOps
\* times in a row, on any idle controller state of the value sets and against
\* either kind of upstream.
Configs ==
  [githubToken : GithubTokens, vercelToken : VercelTokens,
   githubUsername : {"", Login("tokA")}]

InitOps ==
  /\ step \in Steps
  /\ config \in Configs
  /\ project \in {None} \cup {Some(p) : p \in Projects}
  /\ prompt = <<>>
  /\ logs = <<>>
  /\ deploymentUrl = None
  /\ repoUrl = None
  /\ isLoading = FALSE
  /\ stored = None
  /\ pc = "idle"
  /\ cap = NoCap
  /\ idx = 0
  /\ sha = None
  /\ remoteRepos = {}
  /\ progress = <<>>
  /\ uploaded = <<>>
  /\ ev = Event("init", <<>>, <<>>, <<>>)
  /\ nops = 0
  /\ upstream \in {"any", "reliable"}

CallDeploy ==
  /\ pc = "idle"
  /\ Invoke("handleDeploy", handleDeploy(Cur))

NextOps ==
  \/ CallDeploy
  \/ CreateRepoResponse
  \/ CreateVerifyResponse
  \/ GetResponse
  \/ PutResponse
  \/ VercelResponse

SpecOps == InitOps /\ [][NextOps]_vars

Init == InitWith("any")
Spec == Init /\ [][Next]_vars

\* Sessions against an upstream that never fails a call.
InitReliable == InitWith("reliable")
SpecReliable == InitReliable /\ [][Next]_vars

\* Sessions in which every external call eventually responds or fails: the
\* handler suspended at an await is eventually resumed.  At most one call is
\* pending at a time, so this is one weak-fairness condition on the arrival of
\* a response.  Nothing is assumed of the user.
Respond ==
  \/ SaveVerifyResponse
  \/ GenerateResponse
  \/ CreateRepoResponse
  \/ CreateVerifyResponse
  \/ GetResponse
  \/ PutResponse
  \/ VercelResponse
Fairness == WF_vars(Respond)
SpecLive == Init /\ [][Next]_vars /\ Fairness

\* ------------------------------------------------------------------ claims

GenerateFailed == ev.op = "generateResponse" /\ ev.resp[1] = "fail"
GenerateSucceeded == ev.op = "generateResponse" /\ ev.resp[1] = "ok"

\* C1: after a generate call whose generation-client call fails, the stage is
\* Prompt and no project is stored.
C1_FailedGenerateStoresNoProject ==
  GenerateFailed => step = PROMPT /\ project = None

\* C2: a generate call with an empty or whitespace-only prompt changes nothing:
\* not the stage, the project, the busy flag or the log, and no external call
\* is started.
C2_BlankPromptGenerateIsNoOp ==
  (ev.op = "handleGenerate" /\ Trim(prompt) = <<>>) =>
    /\ Cur = ev.pre
    /\ pc = "idle"

C2_Witness ==
  /\ ev.op = "handleGenerate"
  /\ prompt # <<>>
  /\ Trim(prompt) = <<>>
  /\ logs # <<>>

\* C3: after a successful generate the stage is Review, the stored project is
\* the one the generation client returned (replacing any earlier one), and the
\* file count in the last log entry is the length of the stored file list.
C3_SuccessfulGenerate ==
  GenerateSucceeded =>
    /\ step = REVIEW
    /\ project = Some(ev.resp[2])
    /\ logs = ev.pre.logs \o
         << Entry(<<"Generated project", project[1].name>>, "success"),
            Entry(<<"Created files", Len(project[1].files)>>, "info") >>

C3_Witness ==
  /\ GenerateSucceeded
  /\ ev.pre.project # None
  /\ ev.pre.project # project
  /\ Len(project[1].files) > 0

\* What the running handler of the last task had closed over, and the log
\* entries it has appended since its click.
EvToken == ev.pre.cap.config.githubToken
EvName == ev.pre.cap.project[1].name
EvFiles == ev.pre.cap.project[1].files
EvAppended == SubSeq(logs, ev.pre.cap.base + 1, Len(logs))

IsPushing(e) == e.message[1] = "Pushing"
IsSkipping(e) == e.message[1] = "Skipping Vercel deployment (no token provided)."
Count(seq, x) == Cardinality({i \in DOMAIN seq : seq[i] = x})

UploadFailed == ev.op = "put" /\ ev.resp[1] = "fail"

\* C4: when deploy fails at the upload of a file, the stage afterwards is
\* Review, every file before the failing one triggered exactly one progress
\* callback, the callbacks came in input order, and no callback fired for a
\* file after the failing one; the log shows the same messages.
C4_UploadFailureCallbacks ==
  UploadFailed =>
    LET k == ev.pre.idx
    IN /\ step = REVIEW
       /\ \A i \in 1..Len(EvFiles) :
            /\ i < k => Count(progress, i) = 1
            /\ i > k => Count(progress, i) = 0
       /\ \A a, b \in DOMAIN progress : a < b => progress[a] < progress[b]
       /\ SelectSeq(EvAppended, IsPushing) =
            [i \in 1..Len(progress) |-> Entry(<<"Pushing", EvFiles[progress[i]]>>, "info")]

C4_Witness ==
  /\ UploadFailed
  /\ ev.pre.idx = 2
  /\ Len(EvFiles) = 3

CollisionFallback == ev.op = "createRepoFallback"

DeployEnded ==
  /\ ev.op \in {"createRepo", "createRepoFallback", "put", "vercel"}
  /\ pc = "idle"

\* C6: a deploy that runs with a valid source-control credential and no hosting
\* credential ends in stage Success with repoUrl set and deploymentUrl unset,
\* and appends exactly one "Skipping Vercel deployment" entry.
C6_DeployWithoutHosting ==
  (DeployEnded /\ EvToken \in ValidTokens /\ ev.pre.cap.config.vercelToken = "") =>
    /\ step = SUCCESS
    /\ repoUrl # None
    /\ deploymentUrl = None
    /\ Len(SelectSeq(EvAppended, IsSkipping)) = 1

\* The running deploy is a later one of the same project on the same account:
\* an earlier deploy left the url of this very repository.
Redeploy ==
  /\ ev.op \in {"createRepo", "createRepoFallback"}
  /\ EvToken \in ValidTokens
  /\ ev.pre.repoUrl = Some(GithubUrl(Login(EvToken), EvName))

C8_StageConsistent ==
  /\ step = SUCCESS => repoUrl # None
  /\ step \in {REVIEW, DEPLOYING, SUCCESS} => project # None

C8_Witness ==
  /\ step = SUCCESS
  /\ repoUrl # None
  /\ project # None
  /\ ev.op = "put"

\* C9: saveConfiguration persists the configuration and moves the stage to
\* Prompt exactly when the verification succeeds, the persisted record then
\* carrying the verified credential with the account identifier resolved for
\* it and one success entry being logged; when the verification fails, exactly
\* one error entry is appended and stage and persisted record stay as they were.
C9_SaveConfiguration ==
  ev.op = "saveVerify" =>
    IF ev.resp[1] = "ok"
    THEN /\ stored = Some([ev.pre.cap.config EXCEPT
                             !.githubUsername = Login(EvToken)])
         /\ config = stored[1]
         /\ step = PROMPT
         /\ logs = Append(ev.pre.logs,
                          Entry(<<"Authenticated as GitHub user", Login(EvToken)>>, "success"))
    ELSE /\ stored = ev.pre.stored
         /\ config = ev.pre.config
         /\ step = ev.pre.step
         /\ step # PROMPT
         /\ Len(logs) = Len(ev.pre.logs) + 1
         /\ SubSeq(logs, 1, Len(ev.pre.logs)) = ev.pre.logs
         /\ logs[Len(logs)].type = "error"

C9_Witness ==
  /\ ev.op = "saveVerify"
  /\ ev.resp[1] = "ok"
  /\ ev.pre.config # ev.pre.cap.config
  /\ ev.pre.stored # None

\* C10: deploy changes nothing (stage, log, busy flag) and starts no external
\* call when no project is stored or the configuration has no resolved account
\* identifier.
C10_DeployWithoutProjectOrAccountIsNoOp ==
  (ev.op = "handleDeploy" /\ (ev.pre.project = None \/ ev.pre.config.githubUsername = "")) =>
    /\ Cur = ev.pre
    /\ pc = "idle"
    /\ ~isLoading

C10_Witness ==
  /\ ev.op = "handleDeploy"
  /\ project # None
  /\ config.githubUsername = ""
  /\ config.githubToken \in ValidTokens
  /\ step = REVIEW

\* The log entries the handler in flight has appended since its click.
Appended == SubSeq(logs, cap.base + 1, Len(logs))
IsRepoCreated(e) == e.message[1] = "Repository created"
AllFiles(files) == [i \in 1..Len(files) |-> i]

\* The last task was a step of a deploy invocation failing.
DeployFailed ==
  \/ ev.op \in {"createRepo", "createRepoFallback"} /\ ev.result[1] = "throw"
  \/ ev.op \in {"put", "vercel"} /\ ev.resp[1] = "fail"

\* C11: within one deploy invocation the external steps come in strict order:
\* a file lookup or upload is in flight only after this invocation's repository
\* creation returned, the hosting registration is in flight only after every
\* file was uploaded and only with a hosting credential, and the failure of any
\* step ends the invocation at once, the stage being Review and the log being
\* the earlier entries followed by one error entry.
C11_DeployStepsInOrder ==
  /\ pc \in {"get", "put"} =>
       /\ Len(SelectSeq(Appended, IsRepoCreated)) = 1
       /\ repoUrl # None
       /\ uploaded = AllFiles(uploaded)
       /\ Len(uploaded) < Len(cap.project[1].files)
  /\ (ev.op \in {"createRepo", "createRepoFallback"} /\ ev.result[1] # "return") =>
       progress = <<>> /\ pc \notin {"get", "put", "vercel"}
  /\ pc = "vercel" =>
       /\ cap.config.vercelToken # ""
       /\ uploaded = AllFiles(cap.project[1].files)
       /\ Len(SelectSeq(Appended, IsRepoCreated)) = 1
  /\ DeployFailed =>
       /\ pc = "idle"
       /\ step = REVIEW
       /\ Len(logs) = Len(ev.pre.logs) + 1
       /\ SubSeq(logs, 1, Len(ev.pre.logs)) = ev.pre.logs
       /\ logs[Len(logs)].type = "error"
       /\ uploaded = ev.pre.uploaded
       /\ progress = ev.pre.progress
       /\ deploymentUrl = ev.pre.deploymentUrl

C11_Witness ==
  /\ DeployFailed
  /\ ev.op = "vercel"
  /\ Len(uploaded) = 2
  /\ ev.pre.step # DEPLOYING

Handlers == {"handleSaveConfig", "handleGenerate", "handleDeploy"}

\* C12: at most one of saveConfiguration, generate and deploy is in flight: the
\* busy flag is set exactly while a handler is suspended at an external call,
\* and every handler that starts does so with the busy flag clear and no
\* handler suspended, whatever the user clicked or edited in between.
C12_OneOperationInFlight ==
  /\ isLoading <=> pc # "idle"
  /\ ev.op \in Handlers => ~ev.pre.isLoading /\ ev.pre.pc = "idle"

\* A button of another operation is on screen while one is in flight.
C12_Witness ==
  /\ pc = "generate"
  /\ isLoading
  /\ step = CONFIG
  /\ config.githubToken # ""

\* C13: pushFilesToRepo goes through the file list in order, one file at a
\* time and each file once: the files whose progress callback ran and the files
\* uploaded are both initial segments of the list, the callback of the file
\* being looked up or uploaded has run and no later one has, and a failed
\* upload ends the operation with no request for a later file, the uploaded
\* files being those before the failing one.
C13_PushFilesInOrder ==
  /\ progress = AllFiles(progress)
  /\ uploaded = AllFiles(uploaded)
  /\ Len(uploaded) <= Len(progress)
  /\ Len(progress) <= Len(uploaded) + 1
  /\ pc \in {"get", "put"} =>
       /\ idx \in 1..Len(cap.project[1].files)
       /\ Len(progress) = idx
       /\ Len(uploaded) = idx - 1
  /\ (ev.op = "put" /\ ev.resp[1] = "ok") =>
       /\ uploaded = Append(ev.pre.uploaded, ev.pre.idx)
       /\ pc = "get" => idx = ev.pre.idx + 1
       /\ pc # "get" => ev.pre.idx = Len(EvFiles)
  /\ UploadFailed =>
       /\ pc = "idle"
       /\ Len(progress) = ev.pre.idx
       /\ Len(uploaded) = ev.pre.idx - 1

C13_Witness ==
  /\ UploadFailed
  /\ ev.pre.idx = 1
  /\ Len(EvFiles) = 3
  /\ uploaded = <<>>
  /\ progress = <<1>>

\* C14: the reset navigation returns the stage to Prompt and discards the
\* stored project and the deployment state, so that after a reset no project,
\* repository url or deployment url is stored.
C14_ResetDiscardsProject ==
  [][ClickReset =>
       /\ step' = PROMPT
       /\ project' = None
       /\ repoUrl' = None
       /\ deploymentUrl' = None]_vars

\* C15: the log is append-only: every step of the program, a handler task, an
\* edit or a navigation, leaves the entries there are unchanged and in place
\* and at most adds entries at the end.
C15_LogAppendOnly ==
  [][/\ Len(logs') >= Len(logs)
     /\ SubSeq(logs', 1, Len(logs)) = logs]_vars

\* A deploy failed at an upload after entries of its own and of an earlier
\* operation.
C15_Witness ==
  /\ UploadFailed
  /\ ev.pre.cap.base > 0
  /\ Len(ev.pre.logs) > ev.pre.cap.base + 2
  /\ SubSeq(logs, 1, Len(ev.pre.logs)) = ev.pre.logs
  /\ logs[Len(logs)].type = "error"

\* Position of a stage in the order Config < Prompt < Generating < Review <
\* Deploying < Success.
Rank(s) ==
  CASE s = CONFIG -> 0
    [] s = PROMPT -> 1
    [] s = GENERATING -> 2
    [] s = REVIEW -> 3
    [] s = DEPLOYING -> 4
    [] s = SUCCESS -> 5

\* Task e is the failure of an operation: the catch block of a handler ran.
IsFailure(e) ==
  \/ e.op \in {"saveVerify", "generateResponse", "put", "vercel"} /\ e.resp[1] = "fail"
  \/ e.op \in {"createRepo", "createRepoFallback"} /\ e.result[1] = "throw"

\* C16: a step of the program moves the stage to an earlier one only if it is
\* the Settings or the Reset navigation or the failure of an operation; no
\* handler start and no successful completion does, wherever the user
\* navigated while the operation was in flight.
C16_BackwardOnlyByNavigationOrFailure ==
  [][Rank(step') < Rank(step) =>
       \/ ClickSettings
       \/ ClickReset
       \/ IsFailure(ev')]_vars

\* A generate completed after the user had gone to the settings.
C16_Witness ==
  /\ GenerateSucceeded
  /\ ev.pre.step = CONFIG
  /\ step = REVIEW

LookupAnswered == ev.op = "get"

\* C17: in pushFilesToRepo the outcome of the existence lookup never fails the
\* operation: after a lookup that failed (network error or non-success
\* response) the upload of the same file is in flight without a prior-content
\* marker, after a successful one it is in flight with the marker the lookup
\* returned, and stage, log and busy flag are as before.
C17_LookupFailureTolerated ==
  LookupAnswered =>
    /\ pc = "put"
    /\ idx = ev.pre.idx
    /\ sha = IF ev.resp[1] = "ok" THEN Some(ev.resp[2]) ELSE None
    /\ ev.resp[1] # "ok" => sha = None
    /\ logs = ev.pre.logs
    /\ step = ev.pre.step
    /\ isLoading
    /\ uploaded = ev.pre.uploaded

C17_Witness ==
  /\ LookupAnswered
  /\ ev.resp[1] = "neterr"
  /\ pc = "put"
  /\ idx = 2
  /\ sha = None

DeployAwaits == {"create", "createVerify", "get", "put", "vercel"}

\* C18: whenever the busy flag is clear the stage is one of Config, Prompt,
\* Review and Success; the stage is Generating only while a generate is in
\* flight and Deploying only while a deploy is in flight.
C18_TransientStagesOnlyWhileBusy ==
  /\ ~isLoading => step \in {CONFIG, PROMPT, REVIEW, SUCCESS}
  /\ step = GENERATING => isLoading /\ pc = "generate"
  /\ step = DEPLOYING => isLoading /\ pc \in DeployAwaits

\* A generate that failed has left the transient stage.
C18_Witness ==
  /\ GenerateFailed
  /\ ev.pre.step = GENERATING
  /\ ~isLoading
  /\ step = PROMPT

\* C19: whenever a deploy is at one of its external calls, the account
\* identifier it uses is the one the credential verification resolves for the
\* source-control credential it uses, and the configuration in memory carries
\* no credential edited since the verification that resolved its identifier.
C19_DeployCredentialVerified ==
  pc \in DeployAwaits =>
    /\ cap.config.githubToken \in ValidTokens
    /\ cap.config.githubUsername = Login(cap.config.githubToken)

\* C20: every external call eventually responding or failing, every started
\* saveConfiguration, generate or deploy eventually completes and clears the
\* busy flag, on the success path and on every failure path.
C20_OperationsComplete == isLoading ~> ~isLoading

\* A deploy ran through all its calls and cleared the flag.
C20_Witness ==
  /\ ev.op = "vercel"
  /\ ev.resp[1] = "ok"
  /\ ev.pre.isLoading
  /\ ~isLoading
  /\ Len(uploaded) = 3

====
